---- MODULE Spec2Model ----
(***************************************************************************)
(* Model of the duration-matching part of video_translate.py: the speed    *)
(* factor calculation, the atempo filter-chain planning, the primary       *)
(* (atempo) and fallback (rubberband) rate adjustment, the truncation      *)
(* safeguard and the final mux, from Step 5 of main() (line 219) onwards.  *)
(*                                                                         *)
(* Numbers.  Durations are whole seconds.  A factor is an exact rational   *)
(* <<n, d>> in lowest terms with d > 0.  Python computes the factor as one *)
(* float division and afterwards only divides by 2.0 or 0.5, which is      *)
(* exact in binary floating point, so the rational arithmetic of the chain *)
(* is the arithmetic of the code.  A stage "atempo=<x>" is written with    *)
(* Python's repr of the float, which parses back to the same float; the    *)
(* stage is modelled by that number.                                       *)
(*                                                                         *)
(* Files.  A file is modelled by what it holds: "absent", "tts" (the       *)
(* synthesized track), "atempo", "rubberband", "trimmed", or "partial"     *)
(* (what a failed ffmpeg run may leave behind).  os.rename replaces its    *)
(* destination (POSIX).                                                    *)
(***************************************************************************)
EXTENDS Integers, Sequences, FiniteSets, TLC

VARIABLES
    pc,                    \* position in main()
    exc,                   \* uncaught exception that ended the run, or "none"
    video_duration,        \* None or <<seconds>>
    audio_duration,        \* None or <<seconds>>
    speed_factor,          \* NoFactor or a rational
    remaining_factor,      \* NoFactor or a rational
    filter_chain,          \* sequence of stage values
    filter_str,            \* the stages handed to ffmpeg -filter:a
    thai_mp3,              \* content of tmpdir/thai.mp3
    temp_mp3,              \* content of tmpdir/thai.mp3.temp
    temp_truncate,         \* content of tmpdir/thai.mp3.truncate
    final_audio_duration,  \* None or <<seconds>>
    invoked,               \* per external primitive: "no", "ok" or "failed"
    trim_t,                \* the -t argument of the trim invocation
    muxed                  \* the audio content replace_audio put in the output

vars == <<pc, exc, video_duration, audio_duration, speed_factor,
          remaining_factor, filter_chain, filter_str, thai_mp3, temp_mp3,
          temp_truncate, final_audio_duration, invoked, trim_t, muxed>>

(* ------------------------------ bounds -------------------------------- *)

\* Probed durations in the pipeline range over 0..MaxSeconds.
MaxSeconds == 5

\* Inputs of the function-level specification range over -MaxInput..MaxInput.
MaxInput == 8

\* Cap on the number of loop iterations explored for one plan.
MaxStages == 10

(* ----------------------------- rationals ------------------------------ *)

Abs(x) == IF x < 0 THEN -x ELSE x

RECURSIVE GCD(_, _)
GCD(a, b) == IF b = 0 THEN a ELSE GCD(b, a % b)

\* n/d in lowest terms, denominator positive (d # 0).
Rat(n, d) ==
    LET s == IF d < 0 THEN -1 ELSE 1
        g == GCD(Abs(n), Abs(d))
    IN  <<(s * n) \div g, (s * d) \div g>>

RLt(x, y) == x[1] * y[2] < y[1] * x[2]
RGt(x, y) == RLt(y, x)
RLe(x, y) == ~RLt(y, x)
RMul(x, y) == Rat(x[1] * y[1], x[2] * y[2])
RDiv(x, y) == Rat(x[1] * y[2], x[2] * y[1])

One == <<1, 1>>
Two == <<2, 1>>
Half == <<1, 2>>

RECURSIVE Product(_)
Product(s) == IF s = <<>> THEN One ELSE RMul(Head(s), Product(Tail(s)))

(* ------------------------------ values -------------------------------- *)

None == <<>>
NoFactor == <<>>
Truthy(d) == d # None /\ d[1] # 0

\* abs(final_audio_duration - video_duration) > 1.0 and
\* final_audio_duration > video_duration + 1.0 use this tolerance.
Tolerance == 1


\* Inputs named by the documented scenarios (35 s and 100 s tracks).
ExampleDurations == {35, 100}

\* What ffprobe can report: a failure (None) or a number of seconds.
ProbeResults == {None} \cup {<<d>> : d \in 0..MaxSeconds}

\* Arguments of the function-level specification.
InputDurations ==
    {None} \cup {<<d>> : d \in (-MaxInput..MaxInput) \cup ExampleDurations}

Files == {"absent", "tts", "atempo", "rubberband", "trimmed", "partial"}

\* What a failed ffmpeg run leaves at its output path.
FailedOutput == {"absent", "partial"}

(* ------------------------- pure functions ----------------------------- *)

\* calculate_optimal_speed: Python's truthiness makes None and 0 false.
calculate_optimal_speed(v, a) ==
    IF Truthy(v) /\ Truthy(a) /\ a[1] > 0
    THEN Rat(a[1], v[1])
    ELSE <<3, 2>>

\* Mutant: the identity factor is not short-circuited.
NeedsAdjustment_Always(f) == TRUE

\* if speed_factor != 1.0
NeedsAdjustment(f) == f # One

\* Mutant: the chained branch is taken only above 4.0.
AboveAtempoMax_Four(f) == RGt(f, <<4, 1>>)

\* if speed_factor > 2.0
AboveAtempoMax(f) == RGt(f, Two)

\* elif speed_factor < 0.5
BelowAtempoMin(f) == RLt(f, Half)

\* while remaining_factor > 2.0
HalveMore(r) == RGt(r, Two)

\* Mutant: the remainder after the halving loop is never appended.
AppendHighRemainder_Never(r) == RGt(r, Two)

\* if remaining_factor > 1.0
AppendHighRemainder(r) == RGt(r, One)

\* while remaining_factor < 0.5
DoubleMore(r) == RLt(r, Half)

\* if remaining_factor < 1.0
AppendLowRemainder(r) == RLt(r, One)

\* final_audio_duration and video_duration and abs(final - video) > 1.0
StillDiffers(final, video) ==
    Truthy(final) /\ Truthy(video) /\ Abs(final[1] - video[1]) > Tolerance

\* Mutant: the comparison points the other way.
TooLong_Shorter(final, video) == final[1] < video[1] - Tolerance

\* final_audio_duration > video_duration + 1.0
TooLong(final, video) == final[1] > video[1] + Tolerance

(* ------------------------------- Init --------------------------------- *)

NotInvoked ==
    [atempo |-> "no", rubberband |-> "no", trim |-> "no", mux |-> "no"]

\* Entry to Step 5 of main(): nothing probed, thai.mp3 not yet written.
Init ==
    /\ pc = "probe_video"
    /\ exc = "none"
    /\ video_duration = None
    /\ audio_duration = None
    /\ speed_factor = NoFactor
    /\ remaining_factor = NoFactor
    /\ filter_chain = <<>>
    /\ filter_str = <<>>
    /\ thai_mp3 = "absent"
    /\ temp_mp3 = "absent"
    /\ temp_truncate = "absent"
    /\ final_audio_duration = None
    /\ invoked = NotInvoked
    /\ trim_t = None
    /\ muxed = "absent"

\* A call of the calculation and the planning on arbitrary arguments, with
\* the synthesized track in place.
InitPlan ==
    /\ pc = "calc"
    /\ exc = "none"
    /\ video_duration \in InputDurations
    /\ audio_duration \in InputDurations
    /\ speed_factor = NoFactor
    /\ remaining_factor = NoFactor
    /\ filter_chain = <<>>
    /\ filter_str = <<>>
    /\ thai_mp3 = "tts"
    /\ temp_mp3 = "absent"
    /\ temp_truncate = "absent"
    /\ final_audio_duration = None
    /\ invoked = NotInvoked
    /\ trim_t = None
    /\ muxed = "absent"

(* ------------------------- probing and TTS ---------------------------- *)

\* An uncaught exception leaves main(); the temporary directory is removed.
Crash(e) == pc' = "crashed" /\ exc' = e

\* video_duration = get_video_duration(...); the print formats it with
\* :.1f, which raises TypeError on None.
GetVideoDuration ==
    /\ pc = "probe_video"
    /\ \E d \in ProbeResults :
        /\ video_duration' = d
        /\ IF d = None THEN Crash("TypeError@223")
                       ELSE pc' = "tts" /\ exc' = exc
    /\ UNCHANGED <<audio_duration, speed_factor, remaining_factor,
                   filter_chain, filter_str, thai_mp3, temp_mp3,
                   temp_truncate, final_audio_duration, invoked, trim_t,
                   muxed>>

\* text_to_speech writes thai.mp3 (first attempt or the retry in except).
TextToSpeechOk ==
    /\ pc = "tts"
    /\ thai_mp3' = "tts"
    /\ pc' = "probe_audio"
    /\ UNCHANGED <<exc, video_duration, audio_duration, speed_factor,
                   remaining_factor, filter_chain, filter_str, temp_mp3,
                   temp_truncate, final_audio_duration, invoked, trim_t,
                   muxed>>

\* Both gTTS attempts raise: the second exception is not caught.
TextToSpeechFail ==
    /\ pc = "tts"
    /\ Crash("Exception@92")
    /\ UNCHANGED <<video_duration, audio_duration, speed_factor,
                   remaining_factor, filter_chain, filter_str, thai_mp3,
                   temp_mp3, temp_truncate, final_audio_duration, invoked,
                   trim_t, muxed>>

\* audio_duration = get_audio_duration(thai_mp3); printed with :.1f.
GetAudioDuration ==
    /\ pc = "probe_audio"
    /\ \E d \in ProbeResults :
        /\ audio_duration' = d
        /\ IF d = None THEN Crash("TypeError@228")
                       ELSE pc' = "calc" /\ exc' = exc
    /\ UNCHANGED <<video_duration, speed_factor, remaining_factor,
                   filter_chain, filter_str, thai_mp3, temp_mp3,
                   temp_truncate, final_audio_duration, invoked, trim_t,
                   muxed>>

(* ---------------------- factor and filter chain ----------------------- *)

CalcSpeed ==
    /\ pc = "calc"
    /\ speed_factor' = calculate_optimal_speed(video_duration, audio_duration)
    /\ pc' = "branch"
    /\ UNCHANGED <<exc, video_duration, audio_duration, remaining_factor,
                   filter_chain, filter_str, thai_mp3, temp_mp3,
                   temp_truncate, final_audio_duration, invoked, trim_t,
                   muxed>>

\* else: print('No speed adjustment needed')
NoAdjustment ==
    /\ pc = "branch"
    /\ ~NeedsAdjustment(speed_factor)
    /\ pc' = "mux"
    /\ UNCHANGED <<exc, video_duration, audio_duration, speed_factor,
                   remaining_factor, filter_chain, filter_str, thai_mp3,
                   temp_mp3, temp_truncate, final_audio_duration, invoked,
                   trim_t, muxed>>

\* os.rename(thai_mp3, temp_mp3)
BeginAdjust ==
    /\ pc = "branch"
    /\ NeedsAdjustment(speed_factor)
    /\ temp_mp3' = thai_mp3
    /\ thai_mp3' = "absent"
    /\ pc' = "plan"
    /\ UNCHANGED <<exc, video_duration, audio_duration, speed_factor,
                   remaining_factor, filter_chain, filter_str,
                   temp_truncate, final_audio_duration, invoked, trim_t,
                   muxed>>

\* The three-way branch; the single-stage case sets filter_str at once.
PlanBranch ==
    /\ pc = "plan"
    /\ IF AboveAtempoMax(speed_factor)
       THEN /\ remaining_factor' = speed_factor
            /\ filter_chain' = <<>>
            /\ filter_str' = filter_str
            /\ pc' = "halve"
       ELSE IF BelowAtempoMin(speed_factor)
       THEN /\ remaining_factor' = speed_factor
            /\ filter_chain' = <<>>
            /\ filter_str' = filter_str
            /\ pc' = "double"
       ELSE /\ filter_str' = <<speed_factor>>
            /\ pc' = "atempo"
            /\ UNCHANGED <<remaining_factor, filter_chain>>
    /\ UNCHANGED <<exc, video_duration, audio_duration, speed_factor,
                   thai_mp3, temp_mp3, temp_truncate, final_audio_duration,
                   invoked, trim_t, muxed>>

\* One iteration of: while remaining_factor > 2.0
HalveStep ==
    /\ pc = "halve"
    /\ HalveMore(remaining_factor)
    /\ Len(filter_chain) < MaxStages
    /\ filter_chain' = Append(filter_chain, Two)
    /\ remaining_factor' = RDiv(remaining_factor, Two)
    /\ UNCHANGED <<pc, exc, video_duration, audio_duration, speed_factor,
                   filter_str, thai_mp3, temp_mp3, temp_truncate,
                   final_audio_duration, invoked, trim_t, muxed>>

\* Loop exit, the remainder stage and the join.
HalveDone ==
    /\ pc = "halve"
    /\ ~HalveMore(remaining_factor)
    /\ filter_chain' = IF AppendHighRemainder(remaining_factor)
                       THEN Append(filter_chain, remaining_factor)
                       ELSE filter_chain
    /\ filter_str' = filter_chain'
    /\ pc' = "atempo"
    /\ UNCHANGED <<exc, video_duration, audio_duration, speed_factor,
                   remaining_factor, thai_mp3, temp_mp3, temp_truncate,
                   final_audio_duration, invoked, trim_t, muxed>>

\* One iteration of: while remaining_factor < 0.5
DoubleStep ==
    /\ pc = "double"
    /\ DoubleMore(remaining_factor)
    /\ Len(filter_chain) < MaxStages
    /\ filter_chain' = Append(filter_chain, Half)
    /\ remaining_factor' = RDiv(remaining_factor, Half)
    /\ UNCHANGED <<pc, exc, video_duration, audio_duration, speed_factor,
                   filter_str, thai_mp3, temp_mp3, temp_truncate,
                   final_audio_duration, invoked, trim_t, muxed>>

DoubleDone ==
    /\ pc = "double"
    /\ ~DoubleMore(remaining_factor)
    /\ filter_chain' = IF AppendLowRemainder(remaining_factor)
                       THEN Append(filter_chain, remaining_factor)
                       ELSE filter_chain
    /\ filter_str' = filter_chain'
    /\ pc' = "atempo"
    /\ UNCHANGED <<exc, video_duration, audio_duration, speed_factor,
                   remaining_factor, thai_mp3, temp_mp3, temp_truncate,
                   final_audio_duration, invoked, trim_t, muxed>>

NextPlan ==
    \/ CalcSpeed
    \/ NoAdjustment
    \/ BeginAdjust
    \/ PlanBranch
    \/ HalveStep
    \/ HalveDone
    \/ DoubleStep
    \/ DoubleDone

SpecPlan == InitPlan /\ [][NextPlan]_vars

(* --------------------- primary adjustment (atempo) -------------------- *)

\* ffmpeg -i temp_mp3 -filter:a filter_str thai_mp3 exits 0.
AtempoOk ==
    /\ pc = "atempo"
    /\ thai_mp3' = "atempo"
    /\ invoked' = [invoked EXCEPT !.atempo = "ok"]
    /\ pc' = "rm_temp"
    /\ UNCHANGED <<exc, video_duration, audio_duration, speed_factor,
                   remaining_factor, filter_chain, filter_str, temp_mp3,
                   temp_truncate, final_audio_duration, trim_t, muxed>>

\* Mutant: the .temp file is removed whether or not the invocation worked.
AtempoFail_RemovesTemp ==
    /\ pc = "atempo"
    /\ thai_mp3' \in FailedOutput
    /\ temp_mp3' = "absent"
    /\ invoked' = [invoked EXCEPT !.atempo = "failed"]
    /\ pc' = "rubberband"
    /\ UNCHANGED <<exc, video_duration, audio_duration, speed_factor,
                   remaining_factor, filter_chain, filter_str,
                   temp_truncate, final_audio_duration, trim_t, muxed>>

\* The same invocation raises CalledProcessError: control goes to the outer
\* except clause.
AtempoFail ==
    /\ pc = "atempo"
    /\ thai_mp3' \in FailedOutput
    /\ invoked' = [invoked EXCEPT !.atempo = "failed"]
    /\ pc' = "rubberband"
    /\ UNCHANGED <<exc, video_duration, audio_duration, speed_factor,
                   remaining_factor, filter_chain, filter_str, temp_mp3,
                   temp_truncate, final_audio_duration, trim_t, muxed>>

\* os.remove(temp_mp3) after the primary success.
RemoveTemp ==
    /\ pc = "rm_temp"
    /\ temp_mp3' = "absent"
    /\ pc' = "reprobe"
    /\ UNCHANGED <<exc, video_duration, audio_duration, speed_factor,
                   remaining_factor, filter_chain, filter_str, thai_mp3,
                   temp_truncate, final_audio_duration, invoked, trim_t,
                   muxed>>

\* final_audio_duration = get_audio_duration(thai_mp3), its print, and the
\* two tests that decide on truncation.
Reprobe ==
    /\ pc = "reprobe"
    /\ \E d \in ProbeResults :
        /\ final_audio_duration' = d
        /\ IF d = None
           THEN Crash("TypeError@282")
           ELSE /\ exc' = exc
                /\ pc' = IF StillDiffers(d, video_duration)
                            /\ TooLong(d, video_duration)
                         THEN "trunc_rename"
                         ELSE "mux"
    /\ UNCHANGED <<video_duration, audio_duration, speed_factor,
                   remaining_factor, filter_chain, filter_str, thai_mp3,
                   temp_mp3, temp_truncate, invoked, trim_t, muxed>>

(* ------------------------ truncation safeguard ------------------------ *)

\* os.rename(thai_mp3, temp_truncate)
TruncRename ==
    /\ pc = "trunc_rename"
    /\ temp_truncate' = thai_mp3
    /\ thai_mp3' = "absent"
    /\ pc' = "trim"
    /\ UNCHANGED <<exc, video_duration, audio_duration, speed_factor,
                   remaining_factor, filter_chain, filter_str, temp_mp3,
                   final_audio_duration, invoked, trim_t, muxed>>

\* ffmpeg -i temp_truncate -t str(video_duration) thai_mp3 exits 0.
TrimOk ==
    /\ pc = "trim"
    /\ trim_t' = video_duration
    /\ thai_mp3' = "trimmed"
    /\ invoked' = [invoked EXCEPT !.trim = "ok"]
    /\ pc' = "trunc_rm"
    /\ UNCHANGED <<exc, video_duration, audio_duration, speed_factor,
                   remaining_factor, filter_chain, filter_str, temp_mp3,
                   temp_truncate, final_audio_duration, muxed>>

\* Mutant: no inner except clause, so the outer one takes the failure.
TrimFail_OuterExcept ==
    /\ pc = "trim"
    /\ trim_t' = video_duration
    /\ thai_mp3' \in FailedOutput
    /\ invoked' = [invoked EXCEPT !.trim = "failed"]
    /\ pc' = "rubberband"
    /\ UNCHANGED <<exc, video_duration, audio_duration, speed_factor,
                   remaining_factor, filter_chain, filter_str, temp_mp3,
                   temp_truncate, final_audio_duration, muxed>>

\* The trim invocation raises CalledProcessError: the inner except clause.
TrimFail ==
    /\ pc = "trim"
    /\ trim_t' = video_duration
    /\ thai_mp3' \in FailedOutput
    /\ invoked' = [invoked EXCEPT !.trim = "failed"]
    /\ pc' = "trunc_restore"
    /\ UNCHANGED <<exc, video_duration, audio_duration, speed_factor,
                   remaining_factor, filter_chain, filter_str, temp_mp3,
                   temp_truncate, final_audio_duration, muxed>>

\* os.remove(temp_truncate)
TruncRemove ==
    /\ pc = "trunc_rm"
    /\ temp_truncate' = "absent"
    /\ pc' = "trunc_reprobe"
    /\ UNCHANGED <<exc, video_duration, audio_duration, speed_factor,
                   remaining_factor, filter_chain, filter_str, thai_mp3,
                   temp_mp3, final_audio_duration, invoked, trim_t, muxed>>

\* final_audio_duration = get_audio_duration(thai_mp3) and its print; a
\* TypeError is caught by neither except clause.
TruncReprobe ==
    /\ pc = "trunc_reprobe"
    /\ \E d \in ProbeResults :
        /\ final_audio_duration' = d
        /\ IF d = None THEN Crash("TypeError@310")
                       ELSE pc' = "mux" /\ exc' = exc
    /\ UNCHANGED <<video_duration, audio_duration, speed_factor,
                   remaining_factor, filter_chain, filter_str, thai_mp3,
                   temp_mp3, temp_truncate, invoked, trim_t, muxed>>

\* os.rename(temp_truncate, thai_mp3) in the inner except clause.
TruncRestore ==
    /\ pc = "trunc_restore"
    /\ thai_mp3' = temp_truncate
    /\ temp_truncate' = "absent"
    /\ pc' = "mux"
    /\ UNCHANGED <<exc, video_duration, audio_duration, speed_factor,
                   remaining_factor, filter_chain, filter_str, temp_mp3,
                   final_audio_duration, invoked, trim_t, muxed>>

(* ------------------------ fallback (rubberband) ----------------------- *)

\* ffmpeg -i temp_mp3 -filter:a rubberband=tempo=speed_factor thai_mp3
RubberbandOk ==
    /\ pc = "rubberband"
    /\ thai_mp3' = "rubberband"
    /\ invoked' = [invoked EXCEPT !.rubberband = "ok"]
    /\ pc' = "rb_rm_temp"
    /\ UNCHANGED <<exc, video_duration, audio_duration, speed_factor,
                   remaining_factor, filter_chain, filter_str, temp_mp3,
                   temp_truncate, final_audio_duration, trim_t, muxed>>

RubberbandFail ==
    /\ pc = "rubberband"
    /\ thai_mp3' \in FailedOutput
    /\ invoked' = [invoked EXCEPT !.rubberband = "failed"]
    /\ pc' = "restore_orig"
    /\ UNCHANGED <<exc, video_duration, audio_duration, speed_factor,
                   remaining_factor, filter_chain, filter_str, temp_mp3,
                   temp_truncate, final_audio_duration, trim_t, muxed>>

\* os.remove(temp_mp3) after the fallback success.
RubberbandRemoveTemp ==
    /\ pc = "rb_rm_temp"
    /\ temp_mp3' = "absent"
    /\ pc' = "rb_reprobe"
    /\ UNCHANGED <<exc, video_duration, audio_duration, speed_factor,
                   remaining_factor, filter_chain, filter_str, thai_mp3,
                   temp_truncate, final_audio_duration, invoked, trim_t,
                   muxed>>

\* final_audio_duration = get_audio_duration(thai_mp3) and its print; the
\* try block ends here.
RubberbandReprobe ==
    /\ pc = "rb_reprobe"
    /\ \E d \in ProbeResults :
        /\ final_audio_duration' = d
        /\ IF d = None THEN Crash("TypeError@334")
                       ELSE pc' = "mux" /\ exc' = exc
    /\ UNCHANGED <<video_duration, audio_duration, speed_factor,
                   remaining_factor, filter_chain, filter_str, thai_mp3,
                   temp_mp3, temp_truncate, invoked, trim_t, muxed>>

\* Mutant: the original is not moved back.
RestoreOriginal_NoRename ==
    /\ pc = "restore_orig"
    /\ pc' = "mux"
    /\ UNCHANGED <<exc, video_duration, audio_duration, speed_factor,
                   remaining_factor, filter_chain, filter_str, thai_mp3,
                   temp_mp3, temp_truncate, final_audio_duration, invoked,
                   trim_t, muxed>>

\* os.rename(temp_mp3, thai_mp3) after both filters failed.
RestoreOriginal ==
    /\ pc = "restore_orig"
    /\ thai_mp3' = temp_mp3
    /\ temp_mp3' = "absent"
    /\ pc' = "mux"
    /\ UNCHANGED <<exc, video_duration, audio_duration, speed_factor,
                   remaining_factor, filter_chain, filter_str,
                   temp_truncate, final_audio_duration, invoked, trim_t,
                   muxed>>

(* -------------------------------- mux --------------------------------- *)

\* replace_audio(input_video, thai_mp3, output_video) exits 0; it needs an
\* input file to read.
ReplaceAudioOk ==
    /\ pc = "mux"
    /\ thai_mp3 # "absent"
    /\ muxed' = thai_mp3
    /\ invoked' = [invoked EXCEPT !.mux = "ok"]
    /\ pc' = "done"
    /\ UNCHANGED <<exc, video_duration, audio_duration, speed_factor,
                   remaining_factor, filter_chain, filter_str, thai_mp3,
                   temp_mp3, temp_truncate, final_audio_duration, trim_t>>

\* check=True: a failing mux raises CalledProcessError out of main().
ReplaceAudioFail ==
    /\ pc = "mux"
    /\ invoked' = [invoked EXCEPT !.mux = "failed"]
    /\ Crash("CalledProcessError@127")
    /\ UNCHANGED <<video_duration, audio_duration, speed_factor,
                   remaining_factor, filter_chain, filter_str, thai_mp3,
                   temp_mp3, temp_truncate, final_audio_duration, trim_t,
                   muxed>>

Next ==
    \/ GetVideoDuration
    \/ TextToSpeechOk
    \/ TextToSpeechFail
    \/ GetAudioDuration
    \/ CalcSpeed
    \/ NoAdjustment
    \/ BeginAdjust
    \/ PlanBranch
    \/ HalveStep
    \/ HalveDone
    \/ DoubleStep
    \/ DoubleDone
    \/ AtempoOk
    \/ AtempoFail
    \/ RemoveTemp
    \/ Reprobe
    \/ TruncRename
    \/ TrimOk
    \/ TrimFail
    \/ TruncRemove
    \/ TruncReprobe
    \/ TruncRestore
    \/ RubberbandOk
    \/ RubberbandFail
    \/ RubberbandRemoveTemp
    \/ RubberbandReprobe
    \/ RestoreOriginal
    \/ ReplaceAudioOk
    \/ ReplaceAudioFail

Spec == Init /\ [][Next]_vars

(* ====================== properties: the planner ======================= *)

Positive(f) == f[1] > 0

\* The planning has ended and the chain is about to be handed to ffmpeg.
Planned == pc = "atempo"

\* C1: for every speed factor f > 0 other than 1.0, the product of the
\* planned atempo stages equals f; no stage is dropped or duplicated.
C1_ProductEqualsFactor ==
    (Planned /\ Positive(speed_factor)) =>
        Product(filter_str) = speed_factor

\* C1 witness: the exact power of two 4.0 is planned as [2.0, 2.0].
C1_Witness ==
    /\ Planned
    /\ speed_factor = <<4, 1>>
    /\ filter_str = <<Two, Two>>
    /\ Product(filter_str) = speed_factor

InStageRange(x) == RLe(Half, x) /\ RLe(x, Two)

\* C2: every planned stage lies in [0.5, 2.0]; above 2.0 the chain is 2.0s
\* followed by a last stage in (1.0, 2.0], below 0.5 it is 0.5s followed by
\* a last stage in [0.5, 1.0), otherwise the only stage is the factor.
C2_StagesInRange ==
    (Planned /\ Positive(speed_factor)) =>
        LET n == Len(filter_str) IN
        /\ \A i \in 1..n : InStageRange(filter_str[i])
        /\ RGt(speed_factor, Two) =>
              /\ n >= 1
              /\ \A i \in 1..(n - 1) : filter_str[i] = Two
              /\ RGt(filter_str[n], One) /\ RLe(filter_str[n], Two)
        /\ RLt(speed_factor, Half) =>
              /\ n >= 1
              /\ \A i \in 1..(n - 1) : filter_str[i] = Half
              /\ RLe(Half, filter_str[n]) /\ RLt(filter_str[n], One)
        /\ (RLe(Half, speed_factor) /\ RLe(speed_factor, Two)) =>
              filter_str = <<speed_factor>>

\* C2 witness: 100.0 is planned as six stages of 2.0 and a last of 1.5625.
C2_Witness ==
    /\ Planned
    /\ speed_factor = <<100, 1>>
    /\ filter_str = <<Two, Two, Two, Two, Two, Two, <<25, 16>>>>

\* C3: calculate_optimal_speed returns 1.5 whenever either input is None,
\* zero or negative, and audio_duration / video_duration in every other case.
C3_DefaultOnAbsentZeroNegative ==
    (pc # "calc") =>
        speed_factor =
            IF \/ video_duration = None
               \/ audio_duration = None
               \/ video_duration[1] <= 0
               \/ audio_duration[1] <= 0
            THEN <<3, 2>>
            ELSE Rat(audio_duration[1], video_duration[1])

\* Least k with 2^k >= x, for a rational x > 0.
RECURSIVE Log2Ceil(_, _)
Log2Ceil(x, k) ==
    IF RLe(x, <<2 ^ k, 1>>) THEN k ELSE Log2Ceil(x, k + 1)

\* Iterations a halving or doubling loop needs for a factor of magnitude |f|.
LogSteps(f) ==
    LET m == <<Abs(f[1]), f[2]>>
    IN  IF RLt(m, One) THEN Log2Ceil(RDiv(One, m), 0) ELSE Log2Ceil(m, 0)

\* C10: for every factor calculate_optimal_speed can return, the halving
\* and doubling loops end after at most log2 of the factor's magnitude
\* iterations, and 100.0 is planned as [2.0 x 6, 1.5625].
C10_PlannerTerminates ==
    /\ (pc \in {"halve", "double"}) =>
          Len(filter_chain) <= LogSteps(speed_factor)
    /\ (Planned /\ speed_factor = <<100, 1>>) =>
          filter_str = <<Two, Two, Two, Two, Two, Two, <<25, 16>>>>

(* ====================== properties: the pipeline ====================== *)

\* The only exception that can end a run which has reached the mux step.
MuxFailure == "CalledProcessError@127"

\* main() is at or past the mux step.
AtOrPastMux ==
    /\ pc \in {"mux", "done", "crashed"}
    /\ pc = "crashed" => exc = MuxFailure

\* C4: when the atempo invocation and the rubberband invocation both fail,
\* the rate-adjustment step ends with thai.mp3 holding the synthesized
\* track again (the .temp original moved back over any partial output) and
\* the run goes on to mux that track.
C4_BothFailRestoresOriginal ==
    (/\ invoked.atempo = "failed"
     /\ invoked.rubberband = "failed"
     /\ pc # "restore_orig") =>
        /\ thai_mp3 = "tts"
        /\ temp_mp3 = "absent"
        /\ invoked.trim = "no"
        /\ AtOrPastMux
        /\ pc = "done" => muxed = "tts"

\* C4 witness: both filters failed and the original track was muxed.
C4_Witness ==
    /\ invoked.atempo = "failed"
    /\ invoked.rubberband = "failed"
    /\ pc = "done"
    /\ thai_mp3 = "tts"
    /\ muxed = "tts"

\* C5: with a speed factor of exactly 1.0 no stage is planned, no atempo,
\* rubberband or trim invocation is made, thai.mp3 is neither renamed nor
\* rewritten, and the synthesized track is what gets muxed.
C5_NoAdjustmentAtUnity ==
    (speed_factor = One) =>
        /\ filter_chain = <<>>
        /\ filter_str = <<>>
        /\ invoked.atempo = "no"
        /\ invoked.rubberband = "no"
        /\ invoked.trim = "no"
        /\ thai_mp3 = "tts"
        /\ temp_mp3 = "absent"
        /\ temp_truncate = "absent"
        /\ pc = "branch" \/ AtOrPastMux
        /\ pc = "done" => muxed = "tts"

\* C5 witness: equal durations, factor 1.0, the untouched track muxed.
C5_Witness ==
    /\ speed_factor = One
    /\ audio_duration = video_duration
    /\ pc = "done"
    /\ muxed = "tts"
    /\ invoked.atempo = "no"

\* C6: a duration probe that returns None never ends the run by itself:
\* the run continues with the default factor 1.5 towards the rate filter
\* and the mux.
C6_ProbeFailureNotFatal ==
    ~(pc = "crashed" /\ exc \in {"TypeError@223", "TypeError@228"})

\* C7: after a failed atempo and a successful rubberband invocation, an
\* output reprobed longer than the reference duration + 1.0 s is truncated
\* (the trim primitive is invoked) before the mux.
C7_FallbackTruncatedLikePrimary ==
    (/\ invoked.atempo = "failed"
     /\ invoked.rubberband = "ok"
     /\ pc \in {"mux", "done"}
     /\ Truthy(video_duration)
     /\ final_audio_duration # None
     /\ final_audio_duration[1] > video_duration[1] + Tolerance) =>
        invoked.trim # "no"

\* C8: when the trim invocation fails, thai.mp3 is again the speed-adjusted
\* track (the .truncate copy moved back), nothing is raised out of the
\* step, the rubberband fallback is not run, and the run goes on to mux the
\* speed-adjusted track.
C8_TrimFailureRestoresAdjusted ==
    (invoked.trim = "failed" /\ pc # "trunc_restore") =>
        /\ thai_mp3 = "atempo"
        /\ temp_truncate = "absent"
        /\ invoked.atempo = "ok"
        /\ invoked.rubberband = "no"
        /\ AtOrPastMux
        /\ pc = "done" => muxed = "atempo"

\* C8 witness: the trim failed and the speed-adjusted track was muxed.
C8_Witness ==
    /\ invoked.trim = "failed"
    /\ invoked.rubberband = "no"
    /\ pc = "done"
    /\ muxed = "atempo"

\* The primary adjustment succeeded and its reprobe decided on truncation;
\* final_audio_duration still holds that reprobe's result.
TrimDecided == pc \in {"trunc_rename", "trim"}
TrimDeclined ==
    pc = "mux" /\ invoked.atempo = "ok" /\ invoked.trim = "no"

Exceeds(final, video) == final[1] > video[1] + Tolerance

\* C9 as stated: after a successful primary adjustment the trim primitive
\* is invoked exactly when the reprobed duration exceeds the reference
\* duration + 1.0 s, with the reference duration as its target.
C9_TrimExactlyWhenTooLong ==
    /\ TrimDecided => Exceeds(final_audio_duration, video_duration)
    /\ TrimDeclined => ~Exceeds(final_audio_duration, video_duration)
    /\ invoked.trim # "no" =>
          (trim_t = video_duration /\ invoked.atempo = "ok")

\* C9 amended: the same, for a reference duration other than 0; with a
\* reference duration of 0 (false in the code's truthiness tests) the trim
\* primitive is never invoked.
C9_TrimWhenTooLongAndReferenceNonZero ==
    /\ TrimDecided =>
          (/\ Truthy(video_duration)
           /\ Exceeds(final_audio_duration, video_duration))
    /\ (TrimDeclined /\ Truthy(video_duration)) =>
          ~Exceeds(final_audio_duration, video_duration)
    /\ invoked.trim # "no" =>
          (/\ trim_t = video_duration
           /\ Truthy(video_duration)
           /\ invoked.atempo = "ok")

\* C9 witness: the adjusted track is still too long, and trim ran with the
\* reference duration as its target.
C9_Witness ==
    /\ invoked.trim = "ok"
    /\ invoked.atempo = "ok"
    /\ trim_t = video_duration
    /\ video_duration = <<2>>
    /\ thai_mp3 = "trimmed"
    /\ pc = "trunc_rm"
    /\ final_audio_duration = <<4>>

(* ================== properties: copies kept on disk =================== *)

\* A file that is a whole track, not a missing or half-written one.
CompleteTracks == {"tts", "atempo", "rubberband", "trimmed"}

\* Between the rename of thai.mp3 to .temp and the mux step.
AdjustSteps ==
    {"plan", "halve", "double", "atempo", "rm_temp", "reprobe",
     "trunc_rename", "trim", "trunc_rm", "trunc_reprobe", "trunc_restore",
     "rubberband", "rb_rm_temp", "rb_reprobe", "restore_orig"}

\* The track the last successful step produced.
LatestGood ==
    IF invoked.trim = "ok" THEN "trimmed"
    ELSE IF invoked.atempo = "ok" THEN "atempo"
    ELSE IF invoked.rubberband = "ok" THEN "rubberband"
    ELSE "tts"

\* C11: throughout the rate-adjustment and truncation steps a complete
\* copy of the most recent good track is on disk; .temp is gone only after
\* an atempo or rubberband invocation succeeded, .truncate is gone after a
\* trim invocation only if that invocation succeeded, and at the mux step
\* thai.mp3 is that complete track, never missing or partial.
C11_GoodCopyAlwaysOnDisk ==
    /\ (pc \in AdjustSteps \cup {"mux"}) =>
          LatestGood \in {thai_mp3, temp_mp3, temp_truncate}
    /\ (pc \in AdjustSteps /\ temp_mp3 = "absent") =>
          (/\ invoked.atempo = "ok" \/ invoked.rubberband = "ok"
           /\ thai_mp3 \in CompleteTracks \/ temp_truncate \in CompleteTracks)
    /\ (pc \in AdjustSteps /\ invoked.trim # "no"
        /\ temp_truncate = "absent") =>
          (invoked.trim = "ok" /\ thai_mp3 = "trimmed")
    /\ pc = "mux" =>
          (thai_mp3 \in CompleteTracks /\ thai_mp3 = LatestGood)

\* C11 witness: the trim failed and left a partial thai.mp3, while the
\* speed-adjusted track is still whole in .truncate.
C11_Witness ==
    /\ pc = "trunc_restore"
    /\ invoked.trim = "failed"
    /\ thai_mp3 = "partial"
    /\ temp_mp3 = "absent"
    /\ temp_truncate = "atempo"

====
